---- MODULE Spec2Model ----
(***************************************************************************)
(* Model of the medical-advertisement review backend:                      *)
(*   - the batch orchestrator of src/src/backend/main.py                   *)
(*     (batch_upload_analyze, batch_analyze_files, process_with_semaphore, *)
(*     process_single_file_async, update_file_status) together with the    *)
(*     older entry point of src/backend/main.py, which runs the same       *)
(*     orchestration loop without per-file statuses;                       *)
(*   - the judgment pipeline of src/src/backend/ad_analyzer.py             *)
(*     (analyze_keywords, analyze_complete, analyze_complete_async,        *)
(*     calculate_risk_level, calculate_judgment).                          *)
(*                                                                         *)
(* The event loop is single threaded: a coroutine runs from one await      *)
(* that really suspends to the next.  The model takes one step per         *)
(* status/aggregate update and records in `running` the coroutine that is  *)
(* in the middle of its turn; while `running` is not empty no other        *)
(* coroutine steps, and a status poller can only see states in which       *)
(* `running` is empty.                                                     *)
(*                                                                         *)
(* Scaling: the file caps and concurrency limits of the source (5, 50, 50, *)
(* 5) are replaced by 2, 3, 3, 2.  The relations the code depends on are   *)
(* kept: in src/src/backend/main.py cap = concurrency limit per engine,    *)
(* in src/backend/main.py the cap is larger than the concurrency limit.    *)
(***************************************************************************)
EXTENDS Integers, Sequences, FiniteSets, TLC

----------------------------------------------------------------------------
(* Bounds of the model *)

\* longest item list a client offers to the upload endpoint
MaxOffered == 4

\* most occurrences of one keyword in a text
MaxCount == 3

\* how far outside [-1,100] a risk_score answered by the extraction model lies
ExtraRange == 3

\* last value of the clock; the clock counts sweep intervals and stays at
\* MaxTime once it got there
MaxTime == 2

----------------------------------------------------------------------------
(* Program constants (scaled, see header) *)

\* OCR_FILE_LIMITS = {NAVER: 5, PADDLE: 50}
OCR_FILE_LIMITS == [naver |-> 2, paddle |-> 3]

\* src/backend/main.py: `if len(files) > 50`
LEGACY_FILE_LIMIT == 3

\* src/backend/main.py: `max_concurrent: int = 5`
LEGACY_MAX_CONCURRENT == 2

\* BATCH_CLEANUP_MAX_AGE_HOURS = 24 with BATCH_CLEANUP_INTERVAL_MINUTES = 60:
\* the retention window, in sweep intervals
BATCH_CLEANUP_MAX_AGE_HOURS == 1

Engines == {"naver", "paddle"}

\* display names a client may send; the last one has an unsupported suffix
GoodNames == {"a.png", "b.jpg"}
BadNames == {"c.gif"}
Names == GoodNames \cup BadNames

\* the one batch id the model follows (uuid-based ids never collide)
BatchId == "batch_1"

None == "None"

\* the empty dict
EmptyStore == [b \in {} |-> None]

\* error texts: the OCR collaborator's own error, and str(e) of an exception
OcrError == "ocr_error"
ExcError == "exception"

----------------------------------------------------------------------------
VARIABLES
    batch_status_store,  \* batch id -> BatchAnalysisStatus (in-memory store)
    durable,             \* batch id -> record written to uploads/batch_results
    http,                \* status code of the last upload request
    bpc,                 \* position of batch_analyze_files
    version,             \* "v2": src/src/backend/main.py, "v1": src/backend/main.py
    file_paths,          \* display names of the submitted items, in order
    use_ai,              \* flag of the batch
    ocr_engine,          \* engine of the batch
    OPENAI_API_KEY,      \* whether the environment has an API key
    max_concurrent,      \* concurrency limit of the running batch
    semaphore,           \* asyncio.Semaphore._value
    pc,                  \* task -> position in process_with_semaphore
    result,              \* task -> value returned by process_single_file_async
    fault,               \* task -> what its collaborators did (history)
    running,             \* tasks in the middle of an event-loop turn
    now,                 \* datetime.now(), in sweep intervals since process start
    cleanup_task,        \* _cleanup_task: None, "sleeping" or "cancelled"
    evicted              \* batch id -> the batch a sweep deleted (history)

VARIABLES
    jpc,                 \* position of the running judge call
    jmode,               \* "keywords", "sync" or "async": the operation called
    jtext,               \* the text: keyword -> number of occurrences
    juse_ai,             \* use_ai of the call
    juse_rag,            \* use_rag of the call
    jresult,             \* the ViolationResult being built / returned
    jcontext,            \* rag_context held by analyze_complete_async
    calls,               \* collaborators called by the running call, in order
    ai_failed,           \* the free-text analysis call failed (history)
    extraction           \* what the extraction stage yielded (history)

judgeVars == <<jpc, jmode, jtext, juse_ai, juse_rag, jresult, jcontext, calls,
               ai_failed, extraction>>

batchVars == <<batch_status_store, durable, http, bpc, version, file_paths,
               use_ai, ocr_engine, OPENAI_API_KEY, max_concurrent, semaphore, pc, result,
               fault, running, now, cleanup_task, evicted>>

\* the tasks gather has created
Tasks == DOMAIN pc

----------------------------------------------------------------------------
(* Data *)

FileStatus(name, st, progress, err) ==
    [filename |-> name, status |-> st, progress |-> progress, error |-> err]

\* mutant: the share of the items still to do
PercentOfRemaining(processed, total) ==
    [num |-> (total - processed) * 100, den |-> total]

\* progress_percent is the float processed/total*100; kept as a fraction
Percent(processed, total) == [num |-> processed * 100, den |-> total]

\* Optional[str] holding datetime.isoformat(): absent, the text of time t,
\* or a text datetime.fromisoformat rejects
NoTimestamp == [present |-> FALSE, iso |-> FALSE, t |-> 0]
IsoFormat(t) == [present |-> TRUE, iso |-> TRUE, t |-> t]
BadTimestamp == [present |-> TRUE, iso |-> FALSE, t |-> 0]

\* estimated_completion is now + remaining/max_concurrent * elapsed/processed,
\* kept as the fraction num/den
NoEstimate == [present |-> FALSE, num |-> 0, den |-> 1]
Estimate(at, remaining, limit, elapsed, processed) ==
    [present |-> TRUE,
     num |-> at * limit * processed + remaining * elapsed,
     den |-> limit * processed]

BatchAnalysisStatus(total) ==
    [status |-> "processing",
     total_files |-> total,
     processed_files |-> 0,
     progress_percent |-> [num |-> 0, den |-> 1],
     results |-> <<>>,
     errors |-> <<>>,
     start_time |-> NoTimestamp,
     estimated_completion |-> NoEstimate,
     elapsed_seconds |-> 0,
     current_phase |-> "uploading",
     file_statuses |-> <<>>]

SuffixOk(name) == name \in GoodNames

RECURSIVE SeqsUpTo(_, _)
SeqsUpTo(S, n) ==
    IF n = 0 THEN {<<>>}
    ELSE LET shorter == SeqsUpTo(S, n - 1)
         IN shorter \cup {Append(s, x) : s \in {t \in shorter : Len(t) = n - 1}, x \in S}

----------------------------------------------------------------------------
(* update_file_status *)

\* index of the first FileStatus with this filename, 0 if there is none
FirstWithName(statuses, filename) ==
    IF \E k \in 1..Len(statuses) : statuses[k].filename = filename
    THEN CHOOSE k \in 1..Len(statuses) :
            /\ statuses[k].filename = filename
            /\ \A j \in 1..(k - 1) : statuses[j].filename # filename
    ELSE 0

update_file_status(store, batch_id, filename, st, progress, err) ==
    IF batch_id \notin DOMAIN store THEN store
    ELSE LET statuses == store[batch_id].file_statuses
             k == FirstWithName(statuses, filename)
         IN IF k # 0
            THEN [store EXCEPT ![batch_id].file_statuses[k] =
                     [@ EXCEPT !.status = st,
                               !.progress = progress,
                               !.error = IF err # None THEN err ELSE @]]
            ELSE [store EXCEPT ![batch_id].file_statuses =
                     Append(@, FileStatus(filename, st, progress, err))]

\* process_single_file_async calls update_file_status only `if batch_id:`;
\* the older process_single_file_async has no batch_id and no such call
TrackFile(store, filename, st, progress, err) ==
    IF version = "v2"
    THEN update_file_status(store, BatchId, filename, st, progress, err)
    ELSE store

----------------------------------------------------------------------------
(* Initial state: nothing submitted *)

BatchInit ==
    /\ batch_status_store = EmptyStore
    /\ durable = EmptyStore
    /\ http = None
    /\ bpc = "none"
    /\ version = None
    /\ file_paths = <<>>
    /\ use_ai = FALSE
    /\ ocr_engine = None
    /\ OPENAI_API_KEY \in BOOLEAN
    /\ max_concurrent = 0
    /\ semaphore = 0
    /\ pc = <<>>
    /\ result = <<>>
    /\ fault = <<>>
    /\ running = {}
    /\ now = 0
    /\ cleanup_task = None
    /\ evicted = EmptyStore

----------------------------------------------------------------------------
(* batch_upload_analyze: the upload endpoint *)

\* mutant: the suffix of the items is not looked at
UploadVerdictWithoutSuffixCheck(files, limit) ==
    IF Len(files) > limit THEN "400"
    ELSE IF Len(files) = 0 THEN "400"
    ELSE "200"

\* what the endpoint answers for an item list, before it touches the store
UploadVerdict(files, limit) ==
    IF Len(files) > limit THEN "400"
    ELSE IF Len(files) = 0 THEN "400"
    ELSE IF \E k \in 1..Len(files) : ~SuffixOk(files[k]) THEN "500"
    ELSE "200"

Accept(files, ai, engine, ver) ==
    /\ batch_status_store' =
          [b \in DOMAIN batch_status_store \cup {BatchId} |->
              IF b = BatchId THEN BatchAnalysisStatus(Len(files))
              ELSE batch_status_store[b]]
    /\ bpc' = "queued"
    /\ version' = ver
    /\ file_paths' = files
    /\ use_ai' = ai
    /\ ocr_engine' = engine
    /\ http' = "200"

Reject(code) ==
    /\ http' = code
    /\ UNCHANGED <<batch_status_store, bpc, version, file_paths, use_ai, ocr_engine>>

batch_upload_analyze(files, ai, engine) ==
    /\ bpc = "none"
    /\ LET verdict == UploadVerdict(files, OCR_FILE_LIMITS[engine])
       IN IF verdict = "200" THEN Accept(files, ai, engine, "v2")
          ELSE Reject(verdict)
    /\ UNCHANGED <<durable, OPENAI_API_KEY, max_concurrent, semaphore, pc,
                   result, fault, running, now, cleanup_task, evicted>>

\* the same endpoint in src/backend/main.py: one cap for both engines
legacy_batch_upload_analyze(files, ai, engine) ==
    /\ bpc = "none"
    /\ LET verdict == UploadVerdict(files, LEGACY_FILE_LIMIT)
       IN IF verdict = "200" THEN Accept(files, ai, engine, "v1")
          ELSE Reject(verdict)
    /\ UNCHANGED <<durable, OPENAI_API_KEY, max_concurrent, semaphore, pc,
                   result, fault, running, now, cleanup_task, evicted>>

\* the dict process_single_file_async returns
FileResult(name, ok, err) == [filename |-> name, success |-> ok, error |-> err]

\* a task that has not returned yet has no result
NoResult == FileResult(None, FALSE, None)

----------------------------------------------------------------------------
(* batch_analyze_files, up to the gather *)

\* mutant: the limit of the older program, whatever the engine
FixedConcurrencyLimit == LEGACY_MAX_CONCURRENT

ConcurrencyLimit ==
    IF version = "v2" THEN OCR_FILE_LIMITS[ocr_engine] ELSE LEGACY_MAX_CONCURRENT

batch_analyze_files_start ==
    /\ bpc = "queued"
    /\ running = {}
    /\ max_concurrent' = ConcurrencyLimit
    /\ semaphore' = ConcurrencyLimit
    /\ batch_status_store' =
          IF BatchId \in DOMAIN batch_status_store
          THEN [batch_status_store EXCEPT
                  ![BatchId].start_time = IsoFormat(now),
                  ![BatchId].current_phase = "analyzing",
                  ![BatchId].file_statuses =
                      IF version = "v2"
                      THEN [k \in 1..Len(file_paths) |->
                               FileStatus(file_paths[k], "pending", 0, None)]
                      ELSE @]
          ELSE batch_status_store
    /\ pc' = [i \in 1..Len(file_paths) |-> "created"]
    /\ result' = [i \in 1..Len(file_paths) |-> NoResult]
    /\ fault' = [i \in 1..Len(file_paths) |-> None]
    /\ bpc' = "gathering"
    /\ UNCHANGED <<durable, http, version, file_paths, use_ai, ocr_engine,
                   OPENAI_API_KEY, running, now, cleanup_task, evicted>>

----------------------------------------------------------------------------
(* process_with_semaphore / process_single_file_async, one task per item *)

\* mutant: a gate that never blocks
SemaphoreNeverBlocks(value) == value > 0 \/ value <= 0

\* asyncio.Semaphore: acquire returns at once iff the counter is positive
SemaphoreFree(value) == value > 0

\* gather starts the tasks in submission order: each takes its first turn
\* before any collaborator of the batch has answered
IsNextToStart(i) == \A j \in 1..(i - 1) : pc[j] # "created"

AllStarted == \A j \in Tasks : pc[j] # "created"

\* waiters of the semaphore are woken first in, first out
IsNextWaiter(i) == \A j \in 1..(i - 1) : pc[j] # "waiting"

\* analyze_complete_async suspends only when the AI stages run; the older
\* code calls the synchronous analyze_complete
AnalysisSuspends == version = "v2" /\ use_ai /\ OPENAI_API_KEY

taskFrame == <<durable, http, bpc, version, file_paths, use_ai, ocr_engine,
               OPENAI_API_KEY, max_concurrent, now, cleanup_task, evicted>>

\* `async with semaphore:` entered; status "ocr"; perform_ocr is awaited.
\* perform_ocr suspends on its HTTP or executor call, or answers in the same
\* turn (no API URL configured, unreadable file)
EnterSlot(i, suspends) ==
    /\ semaphore' = semaphore - 1
    /\ batch_status_store' = TrackFile(batch_status_store, file_paths[i], "ocr", 20, None)
    /\ pc' = [pc EXCEPT ![i] = "ocr"]
    /\ running' = IF suspends THEN {} ELSE {i}

\* first turn of a task: it takes a slot, or waits for one
TaskFirstTurn(i, suspends) ==
    /\ bpc = "gathering"
    /\ running = {}
    /\ pc[i] = "created"
    /\ IsNextToStart(i)
    /\ IF SemaphoreFree(semaphore)
       THEN EnterSlot(i, suspends)
       ELSE /\ pc' = [pc EXCEPT ![i] = "waiting"]
            /\ UNCHANGED <<semaphore, batch_status_store, running>>
    /\ UNCHANGED <<result, fault>>
    /\ UNCHANGED taskFrame

\* a waiter is woken by a release and takes the slot
TaskAcquire(i, suspends) ==
    /\ bpc = "gathering"
    /\ running = {}
    /\ pc[i] = "waiting"
    /\ IsNextWaiter(i)
    /\ SemaphoreFree(semaphore)
    /\ EnterSlot(i, suspends)
    /\ UNCHANGED <<result, fault>>
    /\ UNCHANGED taskFrame

\* perform_ocr answers in the turn that called it, or after a suspension
OcrMayReturn(i) ==
    /\ pc[i] = "ocr"
    /\ \/ running = {i}
       \/ running = {} /\ AllStarted

\* perform_ocr answered success: status "analyzing"; analyze_complete_async
OcrSuccess(i) ==
    /\ OcrMayReturn(i)
    /\ batch_status_store' = TrackFile(batch_status_store, file_paths[i], "analyzing", 50, None)
    /\ pc' = [pc EXCEPT ![i] = "analyzing"]
    /\ running' = IF AnalysisSuspends THEN {} ELSE {i}
    /\ UNCHANGED <<semaphore, result, fault>>
    /\ UNCHANGED taskFrame

\* perform_ocr answered {"success": False, "error": ...}
OcrFailure(i) ==
    /\ OcrMayReturn(i)
    /\ batch_status_store' = TrackFile(batch_status_store, file_paths[i], "failed", 0, OcrError)
    /\ result' = [result EXCEPT ![i] = FileResult(file_paths[i], FALSE, OcrError)]
    /\ fault' = [fault EXCEPT ![i] = "ocr_failed"]
    /\ pc' = [pc EXCEPT ![i] = "returned"]
    /\ running' = {i}
    /\ UNCHANGED semaphore
    /\ UNCHANGED taskFrame

\* mutant: no except clause; the exception leaves the task, gather keeps it
\* as the task's value and the aggregate update is skipped
ExceptionEscapes(i, what) ==
    /\ batch_status_store' = batch_status_store
    /\ result' = result
    /\ fault' = [fault EXCEPT ![i] = what]
    /\ pc' = [pc EXCEPT ![i] = "done"]
    /\ running' = {}

\* the `except Exception` clause of process_single_file_async
HandleException(i, what) ==
    /\ batch_status_store' = TrackFile(batch_status_store, file_paths[i], "failed", 0, ExcError)
    /\ result' = [result EXCEPT ![i] = FileResult(file_paths[i], FALSE, ExcError)]
    /\ fault' = [fault EXCEPT ![i] = what]
    /\ pc' = [pc EXCEPT ![i] = "returned"]
    /\ running' = {i}

\* perform_ocr raised
OcrRaises(i) ==
    /\ OcrMayReturn(i)
    /\ HandleException(i, "ocr_raised")
    /\ UNCHANGED semaphore
    /\ UNCHANGED taskFrame

\* the analysis is either in the same turn as the OCR answer or was suspended
AnalysisMayReturn(i) ==
    /\ pc[i] = "analyzing"
    /\ \/ running = {i}
       \/ running = {} /\ AnalysisSuspends /\ AllStarted

\* analyze_complete_async returned: status "completed"
AnalyzeReturns(i) ==
    /\ AnalysisMayReturn(i)
    /\ batch_status_store' = TrackFile(batch_status_store, file_paths[i], "completed", 100, None)
    /\ result' = [result EXCEPT ![i] = FileResult(file_paths[i], TRUE, None)]
    /\ pc' = [pc EXCEPT ![i] = "returned"]
    /\ running' = {i}
    /\ UNCHANGED <<semaphore, fault>>
    /\ UNCHANGED taskFrame

\* analyze_complete_async raised
AnalyzeRaises(i) ==
    /\ AnalysisMayReturn(i)
    /\ HandleException(i, "pipeline_raised")
    /\ UNCHANGED semaphore
    /\ UNCHANGED taskFrame

\* mutant: the aggregate update without the estimate
RecordResultWithoutEstimate(b, r) ==
    LET processed == b.processed_files + 1
        counted == [b EXCEPT
                      !.processed_files = processed,
                      !.progress_percent = Percent(processed, b.total_files),
                      !.elapsed_seconds = now - b.start_time.t,
                      !.results = Append(@, r)]
    IN IF ~r.success
       THEN [counted EXCEPT !.errors = Append(@, <<r.filename, r.error>>)]
       ELSE counted

\* mutant: the result is counted, its error entry is left out
RecordResultWithoutError(b, r) ==
    LET processed == b.processed_files + 1
        elapsed == now - b.start_time.t
    IN [b EXCEPT
          !.processed_files = processed,
          !.progress_percent = Percent(processed, b.total_files),
          !.elapsed_seconds = elapsed,
          !.estimated_completion =
              Estimate(now, b.total_files - processed, max_concurrent,
                       elapsed, processed),
          !.results = Append(@, r)]

\* mutant: the newest result and error are put in front
RecordResultInFront(b, r) ==
    LET processed == b.processed_files + 1
        elapsed == now - b.start_time.t
        counted == [b EXCEPT
                      !.processed_files = processed,
                      !.progress_percent = Percent(processed, b.total_files),
                      !.elapsed_seconds = elapsed,
                      !.estimated_completion =
                          Estimate(now, b.total_files - processed, max_concurrent,
                                   elapsed, processed),
                      !.results = <<r>> \o @]
    IN IF ~r.success
       THEN [counted EXCEPT !.errors = <<<<r.filename, r.error>>>> \o @]
       ELSE counted

\* the aggregate update of process_with_semaphore; start_time is the local
\* of batch_analyze_files that was also written into the batch
RecordResult(b, r) ==
    LET processed == b.processed_files + 1
        elapsed == now - b.start_time.t
        remaining_files == b.total_files - processed
        counted == [b EXCEPT
                      !.processed_files = processed,
                      !.progress_percent = Percent(processed, b.total_files),
                      !.elapsed_seconds = elapsed,
                      !.estimated_completion =
                          IF processed > 0
                          THEN Estimate(now, remaining_files, max_concurrent,
                                        elapsed, processed)
                          ELSE @,
                      !.results = Append(@, r)]
    IN IF ~r.success
       THEN [counted EXCEPT !.errors = Append(@, <<r.filename, r.error>>)]
       ELSE counted

\* rest of the turn in which process_single_file_async returned: the
\* aggregate update, then the semaphore is released
TaskComplete(i) ==
    /\ pc[i] = "returned"
    /\ running = {i}
    /\ batch_status_store' =
          IF BatchId \in DOMAIN batch_status_store
          THEN [batch_status_store EXCEPT ![BatchId] = RecordResult(@, result[i])]
          ELSE batch_status_store
    /\ semaphore' = semaphore + 1
    /\ pc' = [pc EXCEPT ![i] = "done"]
    /\ running' = {}
    /\ UNCHANGED <<result, fault>>
    /\ UNCHANGED taskFrame

----------------------------------------------------------------------------
(* batch_analyze_files, after the gather *)

finishFrame == <<http, version, file_paths, use_ai, ocr_engine, OPENAI_API_KEY,
                 max_concurrent, semaphore, pc, result, fault, running, now,
                 cleanup_task, evicted>>

\* gather returned: status "completed", the durable write follows in the
\* same turn
BatchGathered ==
    /\ bpc = "gathering"
    /\ running = {}
    /\ \A i \in Tasks : pc[i] = "done"
    /\ batch_status_store' =
          IF BatchId \in DOMAIN batch_status_store
          THEN [batch_status_store EXCEPT ![BatchId].status = "completed"]
          ELSE batch_status_store
    /\ bpc' = IF BatchId \in DOMAIN batch_status_store THEN "persisting" ELSE "done"
    /\ UNCHANGED durable
    /\ UNCHANGED finishFrame

\* the record json.dump writes
DurableRecord(b) ==
    [batch_id |-> BatchId,
     total_files |-> b.total_files,
     processed_files |-> b.processed_files,
     results |-> b.results,
     errors |-> b.errors]

PersistOk ==
    /\ bpc = "persisting"
    /\ durable' = [b \in DOMAIN durable \cup {BatchId} |->
                      IF b = BatchId THEN DurableRecord(batch_status_store[BatchId])
                      ELSE durable[b]]
    /\ bpc' = "done"
    /\ UNCHANGED batch_status_store
    /\ UNCHANGED finishFrame

\* mutant: the failed write takes the collected results with it
PersistFailsErasingResults ==
    /\ bpc = "persisting"
    /\ batch_status_store' =
          IF BatchId \in DOMAIN batch_status_store
          THEN [batch_status_store EXCEPT
                  ![BatchId].status = "failed",
                  ![BatchId].results = <<>>,
                  ![BatchId].errors = Append(@, <<"batch", ExcError>>)]
          ELSE batch_status_store
    /\ bpc' = "done"
    /\ UNCHANGED durable
    /\ UNCHANGED finishFrame

\* open() or json.dump raised: the `except Exception` of batch_analyze_files
PersistFails ==
    /\ bpc = "persisting"
    /\ batch_status_store' =
          IF BatchId \in DOMAIN batch_status_store
          THEN [batch_status_store EXCEPT
                  ![BatchId].status = "failed",
                  ![BatchId].errors = Append(@, <<"batch", ExcError>>)]
          ELSE batch_status_store
    /\ bpc' = "done"
    /\ UNCHANGED durable
    /\ UNCHANGED finishFrame

----------------------------------------------------------------------------
(* BatchStore: cleanup_old_batches, the sweep worker, get_batch_status *)

\* mutant: the age of a running batch counts too
IsTerminalOrRunning(status) == status \in {"completed", "failed", "processing"}

\* `status.status in ["completed", "failed"]`
IsTerminal(status) == status \in {"completed", "failed"}

\* the start_time tests of cleanup_old_batches at time t: absent -> delete,
\* fromisoformat raises -> delete, else delete iff older than the window
Expired(start_time, t) ==
    IF start_time.present
    THEN IF start_time.iso
         THEN t - start_time.t > BATCH_CLEANUP_MAX_AGE_HOURS
         ELSE TRUE
    ELSE TRUE

to_delete(store, t) ==
    {b \in DOMAIN store : IsTerminal(store[b].status) /\ Expired(store[b].start_time, t)}

cleanup_old_batches(store, t) ==
    [b \in DOMAIN store \ to_delete(store, t) |-> store[b]]

clockFrame == <<durable, http, bpc, version, file_paths, use_ai, ocr_engine,
                OPENAI_API_KEY, max_concurrent, semaphore, pc, result, fault,
                running>>

\* the batches a sweep at time t deletes, added to those deleted before
Deleted(store, t) ==
    [b \in DOMAIN evicted \cup to_delete(store, t) |->
        IF b \in to_delete(store, t) THEN store[b] ELSE evicted[b]]

\* a timer can fire: no coroutine is in the middle of a turn, the
\* orchestrator, which starts right after the upload response, has started,
\* and the tasks gather made ready have taken their first turn
BetweenTurns ==
    /\ running = {}
    /\ bpc \notin {"queued", "persisting"}
    /\ bpc = "gathering" => AllStarted

\* startup_event: the worker is created before the first request is served
startup_event ==
    /\ cleanup_task = None
    /\ http = None
    /\ bpc = "none"
    /\ cleanup_task' = "sleeping"
    /\ UNCHANGED <<batch_status_store, now, evicted>>
    /\ UNCHANGED clockFrame

\* shutdown_event: the server has waited for its requests and their
\* background tasks; the worker is cancelled
shutdown_event ==
    /\ cleanup_task = "sleeping"
    /\ bpc \in {"none", "done"}
    /\ cleanup_task' = "cancelled"
    /\ UNCHANGED <<batch_status_store, now, evicted>>
    /\ UNCHANGED clockFrame

\* mutant: the worker wakes and goes back to sleep
periodic_cleanup_without_sweep ==
    /\ cleanup_task = "sleeping"
    /\ BetweenTurns
    /\ now < MaxTime
    /\ now' = now + 1
    /\ UNCHANGED <<batch_status_store, evicted, cleanup_task>>
    /\ UNCHANGED clockFrame

\* periodic_cleanup: asyncio.sleep of one interval returns, the sweep runs
periodic_cleanup ==
    /\ cleanup_task = "sleeping"
    /\ BetweenTurns
    /\ now' = IF now < MaxTime THEN now + 1 ELSE now
    /\ batch_status_store' = cleanup_old_batches(batch_status_store, now')
    /\ evicted' = Deleted(batch_status_store, now')
    /\ UNCHANGED cleanup_task
    /\ UNCHANGED clockFrame

\* an interval passes in a process that has no sweep worker: the program of
\* src/backend/main.py, or a stopped process
IntervalPasses ==
    /\ cleanup_task = "cancelled" \/ version = "v1"
    /\ BetweenTurns
    /\ now < MaxTime
    /\ now' = now + 1
    /\ UNCHANGED <<batch_status_store, cleanup_task, evicted>>
    /\ UNCHANGED clockFrame

\* the record get_batch_status builds from the durable file
FromDurable(data) ==
    [BatchAnalysisStatus(data.total_files) EXCEPT
        !.status = "completed",
        !.processed_files = data.processed_files,
        !.progress_percent = [num |-> 100, den |-> 1],
        !.results = data.results,
        !.errors = data.errors]

NotFound == [code |-> "404", batch_id |-> None, batch |-> BatchAnalysisStatus(0)]

get_batch_status(batch_id) ==
    IF batch_id \in DOMAIN batch_status_store
    THEN [code |-> "200", batch_id |-> batch_id, batch |-> batch_status_store[batch_id]]
    ELSE IF batch_id \in DOMAIN durable
         THEN [code |-> "200", batch_id |-> durable[batch_id].batch_id,
               batch |-> FromDurable(durable[batch_id])]
         ELSE NotFound

----------------------------------------------------------------------------
(* The batch specification *)

Offered == SeqsUpTo(Names, MaxOffered)

\* a batch is accepted only while the clock can still outrun its retention
ClockLeavesRoom == now + BATCH_CLEANUP_MAX_AGE_HOURS < MaxTime

Upload ==
    /\ bpc = "none"
    /\ cleanup_task = "sleeping"
    /\ ClockLeavesRoom
    /\ \E files \in Offered, ai \in BOOLEAN, engine \in Engines :
          batch_upload_analyze(files, ai, engine) /\ UNCHANGED judgeVars

LegacyUpload ==
    /\ bpc = "none"
    /\ cleanup_task = None
    /\ ClockLeavesRoom
    /\ \E files \in Offered, ai \in BOOLEAN, engine \in Engines :
        legacy_batch_upload_analyze(files, ai, engine) /\ UNCHANGED judgeVars

FirstTurn ==
    \E i \in Tasks, suspends \in BOOLEAN :
        TaskFirstTurn(i, suspends) /\ UNCHANGED judgeVars
Acquire ==
    \E i \in Tasks, suspends \in BOOLEAN :
        TaskAcquire(i, suspends) /\ UNCHANGED judgeVars
OcrOk == \E i \in Tasks : OcrSuccess(i) /\ UNCHANGED judgeVars
OcrFail == \E i \in Tasks : OcrFailure(i) /\ UNCHANGED judgeVars
OcrExc == \E i \in Tasks : OcrRaises(i) /\ UNCHANGED judgeVars
AnalysisOk == \E i \in Tasks : AnalyzeReturns(i) /\ UNCHANGED judgeVars
AnalysisExc == \E i \in Tasks : AnalyzeRaises(i) /\ UNCHANGED judgeVars
Complete == \E i \in Tasks : TaskComplete(i) /\ UNCHANGED judgeVars

Start == batch_analyze_files_start /\ UNCHANGED judgeVars
Gathered == BatchGathered /\ UNCHANGED judgeVars
Persisted == PersistOk /\ UNCHANGED judgeVars
PersistError == PersistFails /\ UNCHANGED judgeVars
Startup == startup_event /\ UNCHANGED judgeVars
Shutdown == shutdown_event /\ UNCHANGED judgeVars
Sweep == periodic_cleanup /\ UNCHANGED judgeVars
Tick == IntervalPasses /\ UNCHANGED judgeVars

Next ==
    \/ Upload
    \/ LegacyUpload
    \/ Start
    \/ FirstTurn
    \/ Acquire
    \/ OcrOk
    \/ OcrFail
    \/ OcrExc
    \/ AnalysisOk
    \/ AnalysisExc
    \/ Complete
    \/ Gathered
    \/ Persisted
    \/ PersistError
    \/ Startup
    \/ Shutdown
    \/ Sweep
    \/ Tick

----------------------------------------------------------------------------
(* RiskClassifier: calculate_risk_level, calculate_judgment *)

\* mutant: the CRITICAL band starts one point early
calculate_risk_level_early_critical(risk_score) ==
    IF risk_score < 0 THEN "N/A"
    ELSE IF risk_score >= 80 THEN "CRITICAL"
    ELSE IF risk_score >= 61 THEN "HIGH"
    ELSE IF risk_score >= 31 THEN "MEDIUM"
    ELSE IF risk_score >= 11 THEN "LOW"
    ELSE "SAFE"

calculate_risk_level(risk_score) ==
    IF risk_score < 0 THEN "N/A"
    ELSE IF risk_score >= 81 THEN "CRITICAL"
    ELSE IF risk_score >= 61 THEN "HIGH"
    ELSE IF risk_score >= 31 THEN "MEDIUM"
    ELSE IF risk_score >= 11 THEN "LOW"
    ELSE "SAFE"

\* the labels stand for 불필요, 통과, 주의, 수정제안, 수정권고, 게재불가
JudgmentMapping ==
    [x \in {"N/A", "SAFE", "LOW", "MEDIUM", "HIGH", "CRITICAL"} |->
        CASE x = "N/A" -> "unnecessary"
          [] x = "SAFE" -> "pass"
          [] x = "LOW" -> "caution"
          [] x = "MEDIUM" -> "suggest_edit"
          [] x = "HIGH" -> "recommend_edit"
          [] x = "CRITICAL" -> "rejected"]

\* mapping.get(risk_level, "주의")
calculate_judgment(risk_level) ==
    IF risk_level \in DOMAIN JudgmentMapping THEN JudgmentMapping[risk_level]
    ELSE "caution"

\* the older table analyze_keywords still uses
legacy_calculate_risk_level(total_score) ==
    IF total_score >= 100 THEN "CRITICAL"
    ELSE IF total_score >= 50 THEN "HIGH"
    ELSE IF total_score >= 20 THEN "MEDIUM"
    ELSE IF total_score > 0 THEN "LOW"
    ELSE "SAFE"

----------------------------------------------------------------------------
(* KeywordScorer: analyze_keywords *)

\* keyword_db (medical_keywords is not among the sources): keywords in table
\* order, each with a severity
KeywordTable ==
    << [keyword |-> "kw_high", severity |-> "HIGH"],
       [keyword |-> "kw_medium", severity |-> "MEDIUM"],
       [keyword |-> "kw_low", severity |-> "LOW"] >>

KeywordNames == {KeywordTable[k].keyword : k \in 1..Len(KeywordTable)}

\* keyword_db.get_severity_score: severity -> fixed constant
get_severity_score(severity) ==
    CASE severity = "HIGH" -> 30
      [] severity = "MEDIUM" -> 20
      [] severity = "LOW" -> 10

\* a text is known by how often it contains each keyword
Texts == [KeywordNames -> 0..MaxCount]

ViolationResult ==
    [violations |-> <<>>,
     risk_score |-> 0,
     risk_level |-> "SAFE",
     summary |-> "",
     ai_analysis |-> None,
     ai_violations |-> <<>>,
     judgment |-> "pass",
     keyword_risk_score |-> 0]

\* mutant: the bonus is paid for the first occurrence too
repetition_bonus_from_first(count) == IF count > 0 THEN count * 5 ELSE 0

repetition_bonus(count) == IF count > 1 THEN (count - 1) * 5 ELSE 0

Violation(entry, count) ==
    LET base_score == get_severity_score(entry.severity)
    IN [keyword |-> entry.keyword,
        severity |-> entry.severity,
        score |-> base_score,
        count |-> count,
        repetition_bonus |-> repetition_bonus(count),
        total_score |-> base_score + repetition_bonus(count)]

\* the loop over keyword_db.get_all_keywords(), from table entry k on
RECURSIVE ScanKeywords(_, _, _)
ScanKeywords(text, k, acc) ==
    IF k > Len(KeywordTable) THEN acc
    ELSE LET entry == KeywordTable[k]
             count == text[entry.keyword]
         IN IF count > 0
            THEN LET v == Violation(entry, count)
                 IN ScanKeywords(text, k + 1,
                        [acc EXCEPT !.violations = Append(@, v),
                                    !.risk_score = @ + v.total_score])
            ELSE ScanKeywords(text, k + 1, acc)

generate_summary(r) ==
    IF r.risk_score = 0 THEN "no_violation" ELSE "keyword_summary"

analyze_keywords(text) ==
    LET scanned == ScanKeywords(text, 1, ViolationResult)
        levelled == [scanned EXCEPT !.risk_level = legacy_calculate_risk_level(scanned.risk_score)]
    IN [levelled EXCEPT !.summary = generate_summary(levelled)]

----------------------------------------------------------------------------
(* Structured extraction: parse_judgment_json, extract_final_judgment *)

NoPayload == [present |-> FALSE, score_ok |-> FALSE, risk_score |-> 0, summary |-> ""]

Payload(ok, score, summary) ==
    [present |-> TRUE, score_ok |-> ok, risk_score |-> score, summary |-> summary]

ExtractedScores == (0 - 1 - ExtraRange)..(100 + ExtraRange)

\* What a response text is to the parser: whether it has a ```json fence
\* and what json.loads makes of the fenced text; whether the brace pattern
\* with "risk_score" matches and what json.loads makes of that match; and
\* the payload a successful json.loads delivers.  score_ok: int() accepts the
\* risk_score value.
BlockKinds == {"absent", "not_json", "without_score", "with_score"}

\* responses whose parse delivers no payload, one of each shape
FailingResponses ==
    {[fenced |-> f, brace |-> b, score_ok |-> FALSE, risk_score |-> 0, summary |-> ""] :
        f \in BlockKinds \ {"with_score"}, b \in BlockKinds \ {"without_score"}}

\* responses that carry a payload in the fence or in the brace match
PayloadResponses ==
    {[fenced |-> f, brace |-> b, score_ok |-> ok, risk_score |-> v, summary |-> t] :
        f \in {"absent", "with_score"}, b \in {"with_score"},
        ok \in BOOLEAN, v \in ExtractedScores, t \in {"", "ai_summary"}}

Responses ==
    FailingResponses
    \cup {r \in PayloadResponses : r.score_ok \/ r.risk_score = 0}

parse_judgment_json(response) ==
    LET payload == Payload(response.score_ok, response.risk_score, response.summary)
    IN IF response.fenced = "absent"
       THEN IF response.brace = "absent" THEN NoPayload
            ELSE IF response.brace = "with_score" THEN payload
            ELSE NoPayload
       ELSE IF response.fenced = "with_score" THEN payload
            ELSE NoPayload

\* extract_final_judgment: the call raises, or its response is parsed
extract_final_judgment(outcome) ==
    IF outcome.error THEN NoPayload ELSE parse_judgment_json(outcome.response)

ExtractionOutcomes ==
    {[error |-> TRUE,
      response |-> [fenced |-> "absent", brace |-> "absent", score_ok |-> FALSE,
                    risk_score |-> 0, summary |-> ""]]}
    \cup {[error |-> FALSE, response |-> r] : r \in Responses}

----------------------------------------------------------------------------
(* JudgmentPipeline: analyze_complete, analyze_complete_async *)

AiErrorText == "ai_error_text"      \* "AI 분석 중 오류 발생: ..."
AiFailedText == "ai_failed_text"    \* "AI 분석 실패: ..."
AiAnalysisText == "ai_analysis_text"

\* lines 603-619: the extracted score, its level and judgment, the summary
MergeJudgment(r, final) ==
    LET level == calculate_risk_level(final.risk_score)
    IN [r EXCEPT
          !.risk_score = final.risk_score,
          !.risk_level = level,
          !.judgment = calculate_judgment(level),
          !.ai_violations = <<>>,
          !.summary = IF final.summary # "" THEN final.summary ELSE @]

\* mutant: a failed extraction reports score 0
IntegrateJudgmentZeroOnFailure(r, final) ==
    IF final.present /\ final.score_ok THEN MergeJudgment(r, final)
    ELSE [r EXCEPT !.risk_score = 0]

\* mutant: the sentinel -1 is taken for a score of the SAFE band
IntegrateJudgmentNoSentinel(r, final) ==
    IF final.present /\ final.score_ok
    THEN LET merged == MergeJudgment(r, final)
         IN IF final.risk_score < 0
            THEN [merged EXCEPT !.risk_level = "SAFE", !.judgment = "pass"]
            ELSE merged
    ELSE r

\* lines 602-626 of analyze_complete_async: merge the extraction result
IntegrateJudgment(r, final) ==
    IF final.present
    THEN IF ~final.score_ok
         THEN \* int() raises; the outer except replaces the analysis text
              [r EXCEPT !.ai_analysis = AiFailedText]
         ELSE MergeJudgment(r, final)
    ELSE r

\* lines 572-573: the keyword stage and the backup of its score
KeywordStage(text) ==
    LET r == analyze_keywords(text)
    IN [r EXCEPT !.keyword_risk_score = r.risk_score]

\* nothing extracted yet.  ran: extract_final_judgment returned; parsed: its
\* call answered and parse_judgment_json was applied to a response with this
\* fenced block and this brace match; present: the parse delivered a payload
NoExtraction ==
    [ran |-> FALSE, ok |-> FALSE, risk_score |-> 0,
     parsed |-> FALSE, fenced |-> "absent", brace |-> "absent", present |-> FALSE]

JudgeInit ==
    /\ jpc = "idle"
    /\ jmode = None
    /\ jtext = [k \in KeywordNames |-> 0]
    /\ juse_ai = FALSE
    /\ juse_rag = FALSE
    /\ jresult = ViolationResult
    /\ jcontext = ""
    /\ calls = <<>>
    /\ ai_failed = FALSE
    /\ extraction = NoExtraction

\* one call at a time is followed
CanCall == jpc = "idle"

BeginCall(mode, text, ai, rag) ==
    /\ CanCall
    /\ jmode' = mode
    /\ jtext' = text
    /\ juse_ai' = ai
    /\ juse_rag' = rag
    /\ jcontext' = ""
    /\ calls' = <<>>
    /\ ai_failed' = FALSE
    /\ extraction' = NoExtraction

\* score_keywords: analyze_keywords(text)
ScoreKeywords(text) ==
    /\ BeginCall("keywords", text, FALSE, FALSE)
    /\ jresult' = analyze_keywords(text)
    /\ jpc' = "done"

\* judge, asynchronous: analyze_complete_async up to its first await
AnalyzeCompleteAsync(text, ai, rag) ==
    /\ BeginCall("async", text, ai, rag)
    /\ jresult' = KeywordStage(text)
    /\ jpc' = IF ai /\ OPENAI_API_KEY
              THEN IF rag THEN "rag" ELSE "ai"
              ELSE "done"

\* _get_rag_context_async returned (it returns "" when retrieval fails)
RagReturns(context) ==
    /\ jpc = "rag"
    /\ calls' = Append(calls, "retrieval")
    /\ jcontext' = context
    \* analyze_with_ai_async: `if use_rag and not rag_context:` retrieves again
    /\ jpc' = IF context = "" THEN "rag_again" ELSE "ai"
    /\ UNCHANGED <<jmode, jtext, juse_ai, juse_rag, jresult, ai_failed, extraction>>

RagAgainReturns(context) ==
    /\ jpc = "rag_again"
    /\ calls' = Append(calls, "retrieval")
    /\ jcontext' = context
    /\ jpc' = "ai"
    /\ UNCHANGED <<jmode, jtext, juse_ai, juse_rag, jresult, ai_failed, extraction>>

\* analyze_with_ai_async returned: the analysis text, or the error text its own
\* except clause makes of a failed call
AiReturns(failed) ==
    /\ jpc = "ai"
    /\ calls' = Append(calls, "analysis")
    /\ ai_failed' = failed
    /\ jresult' = [jresult EXCEPT !.ai_analysis =
                      IF failed THEN AiErrorText ELSE AiAnalysisText]
    /\ jpc' = "extract"
    /\ UNCHANGED <<jmode, jtext, juse_ai, juse_rag, jcontext, extraction>>

\* extract_final_judgment returned; the result is merged and returned
ExtractReturns(outcome) ==
    /\ jpc = "extract"
    /\ calls' = Append(calls, "extraction")
    /\ LET final == extract_final_judgment(outcome)
       IN /\ jresult' = IntegrateJudgment(jresult, final)
          /\ extraction' = [ran |-> TRUE,
                            ok |-> final.present /\ final.score_ok,
                            risk_score |-> IF final.present /\ final.score_ok
                                           THEN final.risk_score ELSE 0,
                            parsed |-> ~outcome.error,
                            fenced |-> outcome.response.fenced,
                            brace |-> outcome.response.brace,
                            present |-> final.present]
    /\ jpc' = "done"
    /\ UNCHANGED <<jmode, jtext, juse_ai, juse_rag, jcontext, ai_failed>>

\* judge, synchronous: analyze_complete (keyword stage, then analyze_with_ai)
AnalyzeComplete(text, ai, rag, context, failed) ==
    /\ BeginCall("sync", text, ai, rag)
    /\ LET r == analyze_keywords(text)
           with_ai == ai /\ OPENAI_API_KEY
       IN /\ jresult' = IF with_ai
                        THEN [r EXCEPT !.ai_analysis =
                                 IF failed THEN AiErrorText ELSE AiAnalysisText]
                        ELSE r
    /\ jpc' = "done"

----------------------------------------------------------------------------
(* The judgment specification *)


JScore ==
    /\ CanCall
    /\ \E text \in Texts : ScoreKeywords(text) /\ UNCHANGED batchVars

JAsync ==
    /\ CanCall
    /\ \E text \in Texts, ai \in BOOLEAN, rag \in BOOLEAN :
          AnalyzeCompleteAsync(text, ai, rag) /\ UNCHANGED batchVars

JSync ==
    /\ CanCall
    /\ \E text \in Texts, ai \in BOOLEAN, rag \in BOOLEAN,
          context \in {"", "context"}, failed \in BOOLEAN :
          AnalyzeComplete(text, ai, rag, context, failed) /\ UNCHANGED batchVars

JRag == \E context \in {"", "context"} : RagReturns(context) /\ UNCHANGED batchVars

JRagAgain == \E context \in {"", "context"} : RagAgainReturns(context) /\ UNCHANGED batchVars

JAi == \E failed \in BOOLEAN : AiReturns(failed) /\ UNCHANGED batchVars

JExtract ==
    /\ jpc = "extract"
    /\ \E outcome \in ExtractionOutcomes : ExtractReturns(outcome) /\ UNCHANGED batchVars

JudgeNext ==
    \/ JScore
    \/ JAsync
    \/ JSync
    \/ JRag
    \/ JRagAgain
    \/ JAi
    \/ JExtract

----------------------------------------------------------------------------
vars == <<batchVars, judgeVars>>

Init == BatchInit /\ JudgeInit

Spec == Init /\ [][Next]_vars

JudgeSpec == Init /\ [][JudgeNext]_vars

----------------------------------------------------------------------------
(* The batch specification with the progress the event loop guarantees *)

\* perform_ocr answers: the Naver request waits under
\* httpx.AsyncClient(timeout=30.0), which ends the wait, and perform_paddle_ocr
\* is a local call that has no await in it
BoundedOcr == OcrOk \/ OcrFail \/ OcrExc

\* the judgment pipeline calls no collaborator when the AI stages are off;
\* with them on it waits for retrieval and for two OpenAI calls, none of
\* which is given a time limit
LocalAnalysis ==
    /\ ~(use_ai /\ OPENAI_API_KEY)
    /\ AnalysisOk \/ AnalysisExc

\* a ready coroutine gets its turn, a turn runs to its end, a sleep returns
LoopFairness ==
    /\ WF_vars(Start)
    /\ WF_vars(FirstTurn)
    /\ WF_vars(BoundedOcr)
    /\ WF_vars(LocalAnalysis)
    /\ WF_vars(Complete)
    /\ WF_vars(Gathered)
    /\ WF_vars(Persisted \/ PersistError)
    /\ WF_vars(Sweep)

\* batches no longer than the smaller of the two caps
LiveOffered == {files \in Offered : Len(files) <= OCR_FILE_LIMITS["naver"]}

LiveUpload ==
    /\ bpc = "none"
    /\ cleanup_task = "sleeping"
    /\ ClockLeavesRoom
    /\ \E files \in LiveOffered, ai \in BOOLEAN, engine \in Engines :
          batch_upload_analyze(files, ai, engine) /\ UNCHANGED judgeVars

\* the process of src/src/backend/main.py, in which no task ever waits for
\* a slot (the concurrency limit is the file cap)
LiveNext ==
    \/ LiveUpload
    \/ Start
    \/ FirstTurn
    \/ OcrOk
    \/ OcrFail
    \/ OcrExc
    \/ AnalysisOk
    \/ AnalysisExc
    \/ Complete
    \/ Gathered
    \/ Persisted
    \/ PersistError
    \/ Startup
    \/ Shutdown
    \/ Sweep
    \/ Tick

LiveSpec == Init /\ [][LiveNext]_vars /\ LoopFairness

----------------------------------------------------------------------------
(* The sweep specification: cleanup_old_batches applied to any store *)

SweepBatchIds == {BatchId, "batch_2"}

\* start times a stored batch can show at the start of the process's clock
StoredStartTimes == {NoTimestamp, BadTimestamp, IsoFormat(0)}

StoredBatches ==
    {[BatchAnalysisStatus(1) EXCEPT !.status = st, !.start_time = ts] :
        st \in {"processing", "completed", "failed"}, ts \in StoredStartTimes}

Stores == UNION {[ids -> StoredBatches] : ids \in SUBSET SweepBatchIds}

\* a running process with some store and no orchestrator in flight
SweptProcess ==
    /\ batch_status_store \in Stores
    /\ durable = EmptyStore
    /\ http = None
    /\ bpc = "done"
    /\ version = None
    /\ file_paths = <<>>
    /\ use_ai = FALSE
    /\ ocr_engine = None
    /\ OPENAI_API_KEY = FALSE
    /\ max_concurrent = 0
    /\ semaphore = 0
    /\ pc = <<>>
    /\ result = <<>>
    /\ fault = <<>>
    /\ running = {}
    /\ now = 0
    /\ cleanup_task = "sleeping"
    /\ evicted = EmptyStore

SweepNext ==
    \/ Sweep
    \/ Shutdown
    \/ Tick

SweepInit == SweptProcess /\ JudgeInit

SweepSpec == SweepInit /\ [][SweepNext]_vars

----------------------------------------------------------------------------
(* The upload endpoint of a process whose store may hold an earlier batch *)

EarlierBatchIds == {"batch_2"}

EarlierStores == UNION {[ids -> StoredBatches] : ids \in SUBSET EarlierBatchIds}

\* a running process with no orchestrator in flight
ServingProcess ==
    /\ batch_status_store \in EarlierStores
    /\ durable = EmptyStore
    /\ http = None
    /\ bpc = "none"
    /\ version = None
    /\ file_paths = <<>>
    /\ use_ai = FALSE
    /\ ocr_engine = None
    /\ OPENAI_API_KEY \in BOOLEAN
    /\ max_concurrent = 0
    /\ semaphore = 0
    /\ pc = <<>>
    /\ result = <<>>
    /\ fault = <<>>
    /\ running = {}
    /\ now = 0
    /\ cleanup_task = "sleeping"
    /\ evicted = EmptyStore

SubmitInit == ServingProcess /\ JudgeInit

SubmitNext ==
    \/ Upload
    \/ Start

SubmitSpec == SubmitInit /\ [][SubmitNext]_vars

----------------------------------------------------------------------------
(* Properties of the batch orchestrator *)

TheBatch == batch_status_store[BatchId]

InStore == BatchId \in DOMAIN batch_status_store

\* tasks whose OCR reported failure or whose OCR or pipeline raised
FailedTasks == {i \in Tasks : fault[i] # None}

SuccessCount(results) == Cardinality({k \in 1..Len(results) : results[k].success})

AllTasksDone == \A i \in Tasks : pc[i] = "done"

\* a step of the orchestration loop or of one of its tasks
OrchestrationStep ==
    \/ FirstTurn \/ Acquire \/ OcrOk \/ OcrFail \/ OcrExc \/ AnalysisOk \/ AnalysisExc
    \/ Complete \/ Gathered

\* the aggregates of a batch whose N tasks all ended, F of them in failure
Aggregated(b) ==
    /\ AllTasksDone
    /\ b.processed_files = Len(file_paths)
    /\ Len(b.results) = Len(file_paths)
    /\ SuccessCount(b.results) = Len(file_paths) - Cardinality(FailedTasks)

\* C1: failure isolation.  Whatever set F of tasks fails, the other tasks
\* are never stopped (while the gather is pending some step of the loop is
\* enabled), the batch reaches status completed with processed = N, N results
\* of which N - |F| are successes, and |F| entries in errors; the status is
\* failed only after the durable write failed, never because of a task.
C1_FailureIsolation ==
    /\ bpc = "gathering" => ENABLED OrchestrationStep
    /\ bpc = "persisting" => InStore /\ TheBatch.status = "completed"
    /\ (InStore /\ TheBatch.status = "completed") =>
          /\ Aggregated(TheBatch)
          /\ Len(TheBatch.errors) = Cardinality(FailedTasks)
    /\ (InStore /\ TheBatch.status = "failed") =>
          /\ bpc = "done"
          /\ Aggregated(TheBatch)
          /\ Len(TheBatch.errors) = Cardinality(FailedTasks) + 1
          /\ TheBatch.errors[Len(TheBatch.errors)][1] = "batch"

\* C1 witness: a finished batch, completed, with failed and successful tasks
C1_Witness ==
    /\ bpc = "done"
    /\ InStore
    /\ TheBatch.status = "completed"
    /\ FailedTasks # {}
    /\ FailedTasks # Tasks
    /\ \E i \in Tasks : fault[i] = "ocr_failed"
    /\ \E i \in Tasks : fault[i] = "pipeline_raised"

FileTaskTransitions ==
    {<<"pending", "ocr">>, <<"ocr", "analyzing">>, <<"ocr", "failed">>,
     <<"analyzing", "completed">>, <<"analyzing", "failed">>}

\* C2: FileTask state machine.  In every step the state of every FileTask
\* either stays or moves along pending->ocr, ocr->analyzing, ocr->failed,
\* analyzing->completed, analyzing->failed; in particular a completed or
\* failed FileTask never changes state again.
C2_FileTaskStateMachine ==
    [][(InStore /\ BatchId \in DOMAIN batch_status_store'
        /\ Len(TheBatch.file_statuses) = Len(batch_status_store'[BatchId].file_statuses))
       => \A k \in 1..Len(TheBatch.file_statuses) :
             LET before == TheBatch.file_statuses[k].status
                 after == batch_status_store'[BatchId].file_statuses[k].status
             IN after = before \/ <<before, after>> \in FileTaskTransitions]_vars

\* tasks that passed the gate and have not finished their completion update
Holding == {i \in Tasks : pc[i] \in {"ocr", "analyzing", "returned"}}

C3_Bounded ==
    bpc = "gathering" =>
        /\ Cardinality(Holding) <= max_concurrent
        /\ max_concurrent = ConcurrencyLimit
        /\ \A i \in Tasks :
              (pc[i] \in {"created", "waiting"} /\ version = "v2" /\ InStore)
                  => TheBatch.file_statuses[i].status = "pending"

C3_StartsOnFreeSlot ==
    \A i \in Tasks :
        (pc[i] \in {"created", "waiting"} /\ pc'[i] = "ocr")
            => Cardinality(Holding) < max_concurrent

C4_CompletedMeansAllTerminal ==
    (InStore /\ TheBatch.status = "completed") =>
        /\ \A k \in 1..Len(TheBatch.file_statuses) :
              TheBatch.file_statuses[k].status \in {"completed", "failed"}
        /\ TheBatch.processed_files = TheBatch.total_files
        /\ TheBatch.progress_percent.num = 100 * TheBatch.progress_percent.den

\* the batch after the step
TheBatchNext == batch_status_store'[BatchId]

StaysInStore == InStore /\ BatchId \in DOMAIN batch_status_store'

\* a step in which a task's completion update runs
CompletionStep == \E i \in Tasks : pc[i] = "returned" /\ pc'[i] = "done"

C13_Range ==
    InStore =>
        /\ TheBatch.processed_files \in 0..TheBatch.total_files
        /\ TheBatch.progress_percent.num >= 0
        /\ TheBatch.progress_percent.num <= 100 * TheBatch.progress_percent.den

C13_Step ==
    StaysInStore =>
        LET before == TheBatch
            after == TheBatchNext
        IN /\ CompletionStep =>
                /\ after.processed_files = before.processed_files + 1
                /\ after.progress_percent.num * after.total_files
                      = after.processed_files * 100 * after.progress_percent.den
           /\ ~CompletionStep =>
                /\ after.processed_files = before.processed_files
                /\ after.progress_percent = before.progress_percent
           /\ after.processed_files >= before.processed_files
           /\ after.progress_percent.num * before.progress_percent.den
                 >= before.progress_percent.num * after.progress_percent.den

\* C13: batch progress.  Every task completion increases processed by
\* exactly 1 and sets progress_percent to processed/total*100; no other step
\* changes them; processed and progress_percent never decrease and never
\* exceed total and 100.
C13_BatchProgress == [](C13_Range) /\ [][C13_Step]_vars

\* C13 witness: two of three tasks have completed, progress is 200/3
C13_Witness ==
    /\ InStore
    /\ bpc = "gathering"
    /\ running = {}
    /\ TheBatch.total_files = 3
    /\ TheBatch.processed_files = 2
    /\ TheBatch.progress_percent = [num |-> 200, den |-> 3]

C14_Presence ==
    InStore =>
        /\ TheBatch.processed_files = 0 => ~TheBatch.estimated_completion.present
        /\ TheBatch.processed_files >= 1 => TheBatch.estimated_completion.present

C14_Rewritten ==
    (StaysInStore /\ CompletionStep) =>
        LET after == TheBatchNext
            remaining == after.total_files - after.processed_files
            eta == after.estimated_completion
        IN /\ eta.present
           \* eta = now + remaining/max_concurrent * elapsed/processed
           /\ (eta.num - now * eta.den) * max_concurrent * after.processed_files
                 = remaining * (now - after.start_time.t) * eta.den
           /\ remaining = 0 => eta.num = now * eta.den

\* C14: ETA presence.  estimated_completion is absent while processed = 0,
\* is rewritten by every task completion as
\* now + remaining/limit * elapsed/processed, hence present whenever
\* processed >= 1, and at the last completion it is the time of that
\* completion.
C14_EtaPresence == [](C14_Presence) /\ [][C14_Rewritten]_vars

\* C14 witness: after the first of several completions, with time elapsed,
\* the estimate lies in the future
C14_Witness ==
    /\ InStore
    /\ bpc = "gathering"
    /\ TheBatch.processed_files = 1
    /\ TheBatch.total_files > 1
    /\ TheBatch.elapsed_seconds > 0
    /\ TheBatch.estimated_completion.present
    /\ TheBatch.estimated_completion.num > now * TheBatch.estimated_completion.den

\* C15: terminal batches are immutable.  Once the status of a batch is
\* completed or failed, its status, processed, progress_percent, results,
\* errors and file_tasks do not change while the batch stays in the store.
C15_TerminalBatchImmutable ==
    [][(StaysInStore /\ TheBatch.status \in {"completed", "failed"}) =>
          /\ TheBatchNext.status = TheBatch.status
          /\ TheBatchNext.processed_files = TheBatch.processed_files
          /\ TheBatchNext.progress_percent = TheBatch.progress_percent
          /\ TheBatchNext.results = TheBatch.results
          /\ TheBatchNext.errors = TheBatch.errors
          /\ TheBatchNext.file_statuses = TheBatch.file_statuses]_vars

\* the step in which the durable write of the finished batch fails
PersistenceFailureStep ==
    bpc = "persisting" /\ bpc' = "done" /\ BatchId \notin DOMAIN durable'

\* C16: persistence failure.  When the durable write fails the batch gets
\* status failed and one more entry at the end of errors, while results, the
\* per-task error entries, processed and the file_tasks stay what they were,
\* and get_batch_status answers with that in-memory batch.
C16_PersistenceFailureKeepsResults ==
    [][PersistenceFailureStep =>
          /\ StaysInStore
          /\ TheBatchNext.status = "failed"
          /\ Len(TheBatchNext.errors) = Len(TheBatch.errors) + 1
          /\ SubSeq(TheBatchNext.errors, 1, Len(TheBatch.errors)) = TheBatch.errors
          /\ TheBatchNext.errors[Len(TheBatchNext.errors)][1] = "batch"
          /\ TheBatchNext.results = TheBatch.results
          /\ TheBatchNext.processed_files = TheBatch.processed_files
          /\ TheBatchNext.file_statuses = TheBatch.file_statuses
          /\ get_batch_status(BatchId)' =
                [code |-> "200", batch_id |-> BatchId, batch |-> TheBatchNext]]_vars

\* C16 witness: the write failed after tasks had succeeded and failed; the
\* status query still shows every result and the per-task error
C16_Witness ==
    /\ bpc = "done"
    /\ InStore
    /\ TheBatch.status = "failed"
    /\ Len(TheBatch.errors) >= 2
    /\ Len(TheBatch.results) = Len(file_paths)
    /\ SuccessCount(TheBatch.results) >= 1
    /\ get_batch_status(BatchId).batch.results = TheBatch.results

\* a run of cleanup_old_batches: the worker's sleep returned
SweepRan ==
    /\ cleanup_task = "sleeping"
    /\ cleanup_task' = "sleeping"
    /\ now' # now \/ DOMAIN batch_status_store' # DOMAIN batch_status_store

\* what the sweep at time t is to remove
ToBeRemoved(b, t) ==
    /\ b.status \in {"completed", "failed"}
    /\ \/ ~b.start_time.present
       \/ ~b.start_time.iso
       \/ t - b.start_time.t > BATCH_CLEANUP_MAX_AGE_HOURS

\* C17: sweep removal set.  One run of cleanup_old_batches removes exactly
\* the batches that are completed or failed and whose start time is older
\* than the retention window, missing or unparseable; a batch that is not
\* terminal is never removed, and the batches that stay are unchanged.
C17_SweepRemovalSet ==
    [][SweepRan =>
          /\ DOMAIN batch_status_store \ DOMAIN batch_status_store'
                = {b \in DOMAIN batch_status_store :
                      ToBeRemoved(batch_status_store[b], now')}
          /\ DOMAIN batch_status_store' \subseteq DOMAIN batch_status_store
          /\ \A b \in DOMAIN batch_status_store :
                batch_status_store[b].status = "processing"
                    => b \in DOMAIN batch_status_store'
          /\ \A b \in DOMAIN batch_status_store' :
                batch_status_store'[b] = batch_status_store[b]]_vars

\* C17 witness: sweeps have removed a terminal batch whose start time had
\* aged out and kept a running batch that is just as old
C17_Witness ==
    /\ cleanup_task = "sleeping"
    /\ \E b \in DOMAIN evicted :
          evicted[b].status = "completed" /\ evicted[b].start_time = IsoFormat(0)
    /\ \E b \in DOMAIN batch_status_store :
          /\ batch_status_store[b].status = "processing"
          /\ batch_status_store[b].start_time = IsoFormat(0)
          /\ now - batch_status_store[b].start_time.t > BATCH_CLEANUP_MAX_AGE_HOURS

\* C18: status stays answerable after eviction.  For a batch the sweep has
\* removed, get_batch_status answers with a record of the same batch_id,
\* status, total, processed, results and errors as the batch had, and never
\* with not-found.
C18_AnswerableAfterEviction ==
    \A b \in DOMAIN evicted \ DOMAIN batch_status_store :
        LET answer == get_batch_status(b)
        IN /\ answer.code = "200"
           /\ answer.batch_id = b
           /\ answer.batch.status = evicted[b].status
           /\ answer.batch.total_files = evicted[b].total_files
           /\ answer.batch.processed_files = evicted[b].processed_files
           /\ answer.batch.results = evicted[b].results
           /\ answer.batch.errors = evicted[b].errors

\* a terminal batch of the process that runs the sweep worker
TerminalInStore ==
    InStore /\ version = "v2" /\ TheBatch.status \in {"completed", "failed"}

C19_WorkerStarted == version = "v2" => cleanup_task \in {"sleeping", "cancelled"}

C19_WorkerSteps ==
    /\ (cleanup_task = "sleeping" /\ cleanup_task' = "sleeping" /\ now' # now) =>
          /\ now' = now + 1
          /\ batch_status_store' = cleanup_old_batches(batch_status_store, now')
    /\ cleanup_task = "cancelled" =>
          /\ cleanup_task' = "cancelled"
          /\ batch_status_store' = batch_status_store

\* C19: eventual eviction.  The sweep worker runs from process start, a
\* sweep follows every interval, and after the stop nothing is removed; as
\* long as the process runs, a batch that has reached a terminal status is
\* eventually removed from the store.
C19_EventualEviction ==
    /\ [](C19_WorkerStarted)
    /\ [][C19_WorkerSteps]_vars
    /\ (TerminalInStore ~> (~InStore \/ cleanup_task = "cancelled"))

\* C19 witness: the sweep of a running process has removed a finished batch
C19_Witness ==
    /\ version = "v2"
    /\ cleanup_task = "sleeping"
    /\ ~InStore
    /\ BatchId \in DOMAIN evicted
    /\ now - evicted[BatchId].start_time.t > BATCH_CLEANUP_MAX_AGE_HOURS

\* C20: no hang on a stalled collaborator.  Every task of a started batch
\* of src/src/backend/main.py ends (its completion update runs and its slot
\* is released) and the batch reaches a terminal status, also when a
\* collaborator never answers.
C20_NoHang ==
    (bpc = "gathering" /\ version = "v2") ~>
        (/\ \A i \in Tasks : pc[i] = "done"
         /\ semaphore = max_concurrent
         /\ bpc \in {"persisting", "done"})

\* the entry process_with_semaphore adds to errors for a failed result
ErrorEntry(r) == <<r.filename, r.error>>

C21_Completion ==
    \A i \in Tasks :
        (StaysInStore /\ pc[i] = "returned" /\ pc'[i] = "done") =>
            /\ TheBatchNext.results = Append(TheBatch.results, result[i])
            /\ TheBatchNext.errors =
                  IF result[i].success THEN TheBatch.errors
                  ELSE Append(TheBatch.errors, ErrorEntry(result[i]))

C21_NoOtherWriter ==
    (StaysInStore /\ ~CompletionStep) =>
        /\ TheBatchNext.results = TheBatch.results
        /\ TheBatchNext.errors = TheBatch.errors \/ PersistenceFailureStep

\* C21: completion order.  The task that finishes appends its result at the
\* end of results and, if it failed, its entry at the end of errors; no other
\* step writes results, and errors is otherwise written only by the failed
\* durable write: results and the task entries of errors are in the order in
\* which the tasks finished, whatever the order of submission.
C21_CompletionOrder == [][C21_Completion /\ C21_NoOtherWriter]_vars

\* C21 witness: the second item finished first; both failed, and results and
\* errors list the second item before the first
C21_Witness ==
    /\ InStore
    /\ bpc = "done"
    /\ Len(file_paths) = 2
    /\ file_paths[1] # file_paths[2]
    /\ TheBatch.results = <<result[2], result[1]>>
    /\ TheBatch.errors = <<ErrorEntry(result[2]), ErrorEntry(result[1])>>

\* task i takes a step of a batch of src/src/backend/main.py
TaskActs(i) ==
    /\ StaysInStore
    /\ version = "v2"
    /\ bpc = "gathering"
    /\ pc'[i] # pc[i]

\* C22: FileTask exclusivity.  A step of task i writes no FileTask but the
\* i-th, the one created for its item, and the state it reports (ocr,
\* analyzing) is the state of that FileTask after the step; this for every
\* accepted item list, also one with the same display name twice.
C22_FileTaskExclusivity ==
    [][\A i \in Tasks :
          TaskActs(i) =>
              /\ Len(TheBatchNext.file_statuses) = Len(TheBatch.file_statuses)
              /\ \A k \in 1..Len(TheBatch.file_statuses) :
                    k # i => TheBatchNext.file_statuses[k] = TheBatch.file_statuses[k]
              /\ pc'[i] \in {"ocr", "analyzing"} =>
                    TheBatchNext.file_statuses[i].status = pc'[i]]_vars

\* an item list the endpoint is to accept for the engine
ValidItemList(files, engine) ==
    /\ Len(files) >= 1
    /\ Len(files) <= OCR_FILE_LIMITS[engine]
    /\ \A k \in 1..Len(files) : SuffixOk(files[k])

\* the upload endpoint answered in the step with a batch / with an error
SubmissionAccepted == bpc = "none" /\ bpc' = "queued"
SubmissionRejected == bpc = "none" /\ bpc' = "none" /\ http' # http

C23_OnlyValidAccepted ==
    SubmissionAccepted =>
        /\ http' = "200"
        /\ ValidItemList(file_paths', ocr_engine')

C23_RejectionChangesNothing ==
    SubmissionRejected =>
        /\ http' \in {"400", "500"}
        /\ batch_status_store' = batch_status_store
        /\ pc' = <<>>
        /\ UNCHANGED <<durable, version, file_paths, max_concurrent, semaphore,
                       result, fault, running>>

Observable == running = {}

FinishedTasks == {i \in Tasks : pc[i] = "done"}

IsTaskEntry(e) == e[1] # "batch"

\* the entries of errors that tasks wrote
TaskErrors(b) == SelectSeq(b.errors, IsTaskEntry)

\* C24: no lost or half-applied completion update.  In every state a status
\* poller can observe, processed = length of results = number of tasks that
\* have finished, and errors holds one task entry per finished task whose
\* result has success = false.
C24_NoLostUpdate ==
    (InStore /\ Observable) =>
        /\ TheBatch.processed_files = Len(TheBatch.results)
        /\ Len(TheBatch.results) = Cardinality(FinishedTasks)
        /\ Len(TaskErrors(TheBatch))
              = Cardinality({i \in FinishedTasks : ~result[i].success})
        /\ Len(TheBatch.errors) - Len(TaskErrors(TheBatch)) <= 1

\* C24 witness: between turns, one task has finished in failure, one in
\* success, and a third is still waiting for a collaborator
C24_Witness ==
    /\ InStore
    /\ Observable
    /\ bpc = "gathering"
    /\ \E i \in FinishedTasks : ~result[i].success
    /\ \E i \in FinishedTasks : result[i].success
    /\ \E i \in Tasks : pc[i] \in {"ocr", "analyzing"}
    /\ TheBatch.processed_files = 2

\* the OCR collaborator reports failure for the item of task i
OcrReportsFailure(i) == pc[i] = "ocr" /\ fault[i] = None /\ fault'[i] = "ocr_failed"

C25_FailureStep ==
    \A i \in Tasks :
        (StaysInStore /\ version = "v2" /\ OcrReportsFailure(i)) =>
            /\ TheBatch.file_statuses[i].status = "ocr"
            /\ TheBatchNext.file_statuses[i].status = "failed"
            /\ TheBatchNext.file_statuses[i].error = OcrError
            /\ pc'[i] = "returned"
            /\ result'[i] = FileResult(file_paths[i], FALSE, OcrError)

C25_Stopped ==
    \A i \in Tasks :
        /\ fault[i] = "ocr_failed" => pc[i] \in {"returned", "done"}
        /\ (pc[i] = "analyzing" /\ version = "v2" /\ InStore) =>
              TheBatch.file_statuses[i].status = "analyzing"

\* C25: OCR failure stops the task.  When the OCR collaborator reports failure
\* for an item, the item's FileTask goes from ocr to failed with the
\* collaborator's error, the task returns the failure without entering
\* analyzing, and the judgment pipeline runs for an item only while its
\* FileTask is in analyzing.
C25_OcrFailureStopsTask == [](C25_Stopped) /\ [][C25_FailureStep]_vars

\* the FileTasks of a batch that are completed or failed
TerminalFileTasks(b) ==
    {k \in 1..Len(b.file_statuses) : b.file_statuses[k].status \in {"completed", "failed"}}

\* C27: in every state a status poller can observe, the number of FileTasks
\* of a batch of src/src/backend/main.py that are completed or failed equals
\* processed.
C27_TerminalFileTasksCounted ==
    (InStore /\ Observable /\ version = "v2") =>
        Cardinality(TerminalFileTasks(TheBatch)) = TheBatch.processed_files

C28_OnePerItem ==
    (InStore /\ version = "v2") =>
        Len(TheBatch.file_statuses) = TheBatch.total_files

C28_NoneAddedOrRemoved ==
    (StaysInStore /\ version = "v2" /\ bpc # "none") =>
        Len(TheBatchNext.file_statuses) = Len(TheBatch.file_statuses)

\* C28: in every state in which a batch of src/src/backend/main.py is in the
\* store, from its creation by batch_upload_analyze on, the batch has one
\* FileTask per submitted item (length of file_statuses = total_files), and no
\* step adds or removes a FileTask.
C28_OneFileTaskPerItem == [](C28_OnePerItem) /\ [][C28_NoneAddedOrRemoved]_vars

\* tasks that have not yet asked for a slot
NotStarted == {i \in Tasks : pc[i] = "created"}

\* C30: in src/src/backend/main.py the concurrency limit of a batch is the
\* engine's cap on files per batch, so for every accepted batch the gate never
\* blocks: the batch has at most limit tasks, no task ever waits for a slot, a
\* slot is free for every task that has not started, and all N tasks can hold
\* a slot at the same time.
C30_GateNeverBlocks ==
    (version = "v2" /\ bpc = "gathering") =>
        /\ max_concurrent = OCR_FILE_LIMITS[ocr_engine]
        /\ Len(file_paths) <= max_concurrent
        /\ \A i \in Tasks : pc[i] # "waiting"
        /\ semaphore >= Cardinality(NotStarted)
        /\ semaphore = max_concurrent - Cardinality(Holding)

\* C30 witness: a batch as long as the cap of its engine, all of whose tasks
\* wait for OCR or analysis at the same time
C30_Witness ==
    /\ version = "v2"
    /\ bpc = "gathering"
    /\ running = {}
    /\ ocr_engine = "paddle"
    /\ Len(file_paths) = OCR_FILE_LIMITS["paddle"]
    /\ \A i \in Tasks : pc[i] \in {"ocr", "analyzing"}
    /\ \E i \in Tasks : pc[i] = "analyzing"
    /\ semaphore = 0

----------------------------------------------------------------------------
(* Properties of the judgment pipeline *)

Returned == jpc = "done"

\* the keyword stage's own result for the text of the call
KeywordResult == analyze_keywords(jtext)

ExtractionFailed == extraction.ran /\ ~extraction.ok

\* C5: when the structured extraction fails (call error, no parseable JSON,
\* no risk_score, or a risk_score that is no integer), the result returned by
\* analyze_complete_async has risk_score = keyword_risk_score = the aggregate
\* score of the keyword stage.
C5_ExtractionFailureKeepsKeywordScore ==
    (Returned /\ jmode = "async" /\ ExtractionFailed) =>
        /\ jresult.risk_score = jresult.keyword_risk_score
        /\ jresult.keyword_risk_score = KeywordResult.risk_score

\* C5 witness: a failed extraction after a keyword stage that found violations
C5_Witness ==
    /\ Returned
    /\ jmode = "async"
    /\ ExtractionFailed
    /\ jresult.risk_score > 0

\* C6: in every returned result risk_level is the band of the six-band table
\* for risk_score and judgment is the label of that band.
C6_VerdictFromSixBandTable ==
    Returned =>
        /\ jresult.risk_level = calculate_risk_level(jresult.risk_score)
        /\ jresult.judgment = calculate_judgment(jresult.risk_level)

\* the table of the RiskClassifier, severity rising with the index
RiskTable ==
    << [lo |-> 0 - 1, hi |-> 0 - 1, level |-> "N/A", judgment |-> "unnecessary"],
       [lo |-> 0, hi |-> 10, level |-> "SAFE", judgment |-> "pass"],
       [lo |-> 11, hi |-> 30, level |-> "LOW", judgment |-> "caution"],
       [lo |-> 31, hi |-> 60, level |-> "MEDIUM", judgment |-> "suggest_edit"],
       [lo |-> 61, hi |-> 80, level |-> "HIGH", judgment |-> "recommend_edit"],
       [lo |-> 81, hi |-> 100, level |-> "CRITICAL", judgment |-> "rejected"] >>

TableScores == (0 - 1)..100

BandOf(score) ==
    CHOOSE k \in 1..Len(RiskTable) : RiskTable[k].lo <= score /\ score <= RiskTable[k].hi

RankOf(level) == CHOOSE k \in 1..Len(RiskTable) : RiskTable[k].level = level

\* C7: for a score in [-1,100] the level and judgment the classifier gave the
\* returned result are those of the table; no higher score of the range gets
\* a lower band; and the six levels have six different judgments.
C7_RiskClassifierTable ==
    (Returned /\ extraction.ok /\ extraction.risk_score \in TableScores) =>
        LET score == extraction.risk_score
        IN /\ jresult.risk_level = RiskTable[BandOf(score)].level
           /\ jresult.judgment = RiskTable[BandOf(score)].judgment
           /\ \A higher \in score..100 :
                 RankOf(jresult.risk_level) <= RankOf(calculate_risk_level(higher))
           /\ \A k \in 1..Len(RiskTable) :
                 (calculate_judgment(RiskTable[k].level) = jresult.judgment)
                     => RiskTable[k].level = jresult.risk_level

\* C7 witness: the classifier has judged the lowest score of the top band
C7_Witness ==
    /\ Returned
    /\ extraction.ok
    /\ extraction.risk_score = 81
    /\ jresult.risk_level = "CRITICAL"

Clamp(score) ==
    IF score < 0 - 1 THEN 0 - 1 ELSE IF score > 100 THEN 100 ELSE score

\* C8: every returned result has risk_score in [-1,100]; after a successful
\* extraction it is the extracted integer clamped into that range.
C8_ScoreInRange ==
    Returned =>
        /\ jresult.risk_score \in TableScores
        /\ extraction.ok => jresult.risk_score = Clamp(extraction.risk_score)

\* C9: when the extraction yields risk_score = -1 the returned result has
\* risk_score -1, risk_level N/A and judgment 불필요 (unnecessary), whatever the
\* keyword stage found.
C9_NotApplicableSentinel ==
    (Returned /\ extraction.ok /\ extraction.risk_score = 0 - 1) =>
        /\ jresult.risk_score = 0 - 1
        /\ jresult.risk_level = "N/A"
        /\ jresult.judgment = "unnecessary"

\* C9 witness: the sentinel came back for a text full of keyword violations
C9_Witness ==
    /\ Returned
    /\ extraction.ok
    /\ extraction.risk_score = 0 - 1
    /\ Len(jresult.violations) = Len(KeywordTable)
    /\ jresult.keyword_risk_score > 60

\* C10: when the free-text analysis call fails, analyze_complete_async
\* returns the keyword-only result: risk_score, risk_level and violations of
\* the keyword stage, with the error text stored as the AI analysis.
C10_AnalysisFailureKeepsKeywordResult ==
    (Returned /\ jmode = "async" /\ ai_failed) =>
        /\ jresult.risk_score = KeywordResult.risk_score
        /\ jresult.risk_level = KeywordResult.risk_level
        /\ jresult.violations = KeywordResult.violations
        /\ jresult.ai_analysis = AiErrorText

\* C11: keyword findings are preserved by judge.  The result returned by
\* analyze_complete and by analyze_complete_async has the violation list of
\* the keyword stage and keyword_risk_score equal to the keyword stage's
\* aggregate score, whatever the flags and the AI stages did.
C11_KeywordFindingsPreserved ==
    (Returned /\ jmode \in {"sync", "async"}) =>
        /\ jresult.violations = KeywordResult.violations
        /\ jresult.keyword_risk_score = KeywordResult.risk_score

\* what one keyword adds to the aggregate score, by the scoring law
Contribution(entry, count) ==
    IF count >= 1 THEN get_severity_score(entry.severity) + 5 * (count - 1) ELSE 0

RECURSIVE SumContributions(_, _)
SumContributions(text, k) ==
    IF k = 0 THEN 0
    ELSE Contribution(KeywordTable[k], text[KeywordTable[k].keyword])
         + SumContributions(text, k - 1)

MatchedKeywords(text) == {kw \in KeywordNames : text[kw] >= 1}

\* C12: scoring law of analyze_keywords.  There is one violation per keyword
\* that occurs in the text and none for a keyword that does not; a keyword
\* occurring c >= 1 times contributes base + 5*(c-1), never c*base for c = 3;
\* the score is the sum of the contributions; the empty text gives no
\* violation, score 0, risk_level SAFE and judgment 통과 (pass).
C12_KeywordScoringLaw ==
    (Returned /\ jmode = "keywords") =>
        /\ {jresult.violations[k].keyword : k \in 1..Len(jresult.violations)}
              = MatchedKeywords(jtext)
        /\ Len(jresult.violations) = Cardinality(MatchedKeywords(jtext))
        /\ \A k \in 1..Len(jresult.violations) :
              LET v == jresult.violations[k]
              IN /\ v.count = jtext[v.keyword]
                 /\ v.total_score = v.score + 5 * (v.count - 1)
                 /\ v.count = 3 => v.total_score = v.score + 10
                 /\ v.count = 3 => v.total_score # 3 * v.score
        /\ jresult.risk_score = SumContributions(jtext, Len(KeywordTable))
        /\ (MatchedKeywords(jtext) = {}) =>
              /\ jresult.violations = <<>>
              /\ jresult.risk_score = 0
              /\ jresult.risk_level = "SAFE"
              /\ jresult.judgment = "pass"

\* C12 witness: a text with one keyword three times, one once and one absent
C12_Witness ==
    /\ Returned
    /\ jmode = "keywords"
    /\ \E kw \in KeywordNames : jtext[kw] = 3
    /\ \E kw \in KeywordNames : jtext[kw] = 1
    /\ \E kw \in KeywordNames : jtext[kw] = 0
    /\ Len(jresult.violations) = 2

\* parse_judgment_json has been applied to the response of the call
Parsed == Returned /\ extraction.parsed

\* what each of the two attempts finds in the response
FencedAttemptSucceeds == extraction.fenced = "with_score"
BraceAttemptSucceeds == extraction.brace = "with_score"

\* C26: two-strategy parse.  parse_judgment_json delivers a payload exactly
\* when the fenced block or, failing that, the brace-matched substring with
\* the key risk_score parses to an object that has risk_score: it reports
\* failure only when both attempts fail, and success only with such a payload.
C26_TwoStrategyParse ==
    Parsed =>
        /\ extraction.present => (FencedAttemptSucceeds \/ BraceAttemptSucceeds)
        /\ ~extraction.present => (~FencedAttemptSucceeds /\ ~BraceAttemptSucceeds)

AiStagesOn == juse_ai /\ OPENAI_API_KEY

\* the collaborator calls of one judge call, in the fixed order
ExpectedCalls ==
    IF AiStagesOn
    THEN (IF juse_rag THEN <<"retrieval">> ELSE <<>>) \o <<"analysis", "extraction">>
    ELSE <<>>

IsPrefix(s, u) == Len(s) <= Len(u) /\ SubSeq(u, 1, Len(s)) = s

\* C29: collaborator call order in analyze_complete_async.  At every moment
\* of a judge call the collaborators called so far are a prefix of retrieval
\* (only with use_rag), free-text analysis, structured extraction, so each is
\* called at most once and in that order whatever the earlier ones returned;
\* the returned call has made all of them, or none, with the keyword-only
\* result, when use_ai is off or no API key is configured.
C29_CollaboratorCallOrder ==
    jmode = "async" =>
        /\ IsPrefix(calls, ExpectedCalls)
        /\ Returned => calls = ExpectedCalls
        /\ (Returned /\ ~AiStagesOn) => jresult = KeywordStage(jtext)

====
